---- MODULE Spec2Model ----
(***************************************************************************)
(* Model of migrate_miscellaneous_grouped.py: the walk over the library    *)
(* root, the grouping of the entries of one directory by base key, the     *)
(* parsing of a base key, the collision-resolution loop, the moves and the *)
(* metadata patch.  Names are sequences of one-character strings, so that  *)
(* startswith / endswith / slicing / splitext are computed as Python       *)
(* computes them.  A path is a sequence of names relative to ROOT_DIR.     *)
(*                                                                         *)
(* The disk is the set fs of entries (files, and directories such as a     *)
(* .trickplay folder that are moved as a whole and whose contents are not  *)
(* entries of the model) together with the set dirs of the directories the *)
(* walk descends into.  A metadata file holds one title and one year       *)
(* element.  An I/O error (os.makedirs, shutil.move, the open calls of     *)
(* update_nfo) is a choice of the environment, at most MaxFaults times.    *)
(***************************************************************************)
EXTENDS Integers, Sequences, FiniteSets, TLC

\* ---------------------------------------------------------------- bounds
MaxEntries == 4      \* entries present in the library when the program starts
MaxFaults  == 1      \* I/O errors the environment raises during the runs

\* ------------------------------------------------------- string literals
Digits    == <<"0","1","2","3","4","5","6","7","8","9">>
TRICKPLAY == <<".","t","r","i","c","k","p","l","a","y">>
POSTER    == <<"-","p","o","s","t","e","r">>
NFO       == <<".","n","f","o">>
MP4       == <<".","m","p","4">>
JPG       == <<".","j","p","g">>
SepS      == <<" ","-"," ","S">>
SepT      == <<" ","-"," ">>
Whitespace == {" ", "\t", "\n", "\r", "\f"}

IsDigit(c) == \E i \in 1..10 : Digits[i] = c

\* str.startswith / str.endswith
StartsWith(s, p) == Len(p) <= Len(s) /\ SubSeq(s, 1, Len(p)) = p
EndsWith(s, p)   == Len(p) <= Len(s) /\ SubSeq(s, Len(s) - Len(p) + 1, Len(s)) = p

\* str(int) for a non-negative integer
RECURSIVE IntToStr(_)
IntToStr(n) == IF n < 10 THEN <<Digits[n + 1]>>
               ELSE IntToStr(n \div 10) \o <<Digits[(n % 10) + 1]>>

\* str.strip(): drop leading and trailing whitespace
RECURSIVE LStrip(_)
LStrip(s) == IF s # <<>> /\ Head(s) \in Whitespace THEN LStrip(Tail(s)) ELSE s
RECURSIVE RStrip(_)
RStrip(s) == IF s # <<>> /\ s[Len(s)] \in Whitespace
             THEN RStrip(SubSeq(s, 1, Len(s) - 1)) ELSE s
Strip(s) == RStrip(LStrip(s))

\* os.path.splitext(item)[0] for a name without a path separator: cut at the
\* last dot unless only dots precede it
LastDot(s) == IF \E i \in 1..Len(s) : s[i] = "."
              THEN CHOOSE i \in 1..Len(s) :
                      s[i] = "." /\ \A j \in (i+1)..Len(s) : s[j] # "."
              ELSE 0
SplitextRoot(p) ==
    LET d == LastDot(p)
    IN  IF d > 0 /\ (\E j \in 1..(d-1) : p[j] # ".") THEN SubSeq(p, 1, d - 1) ELSE p

\* the base key of an item (lines 82-91)
BaseKeyFrontSlice(item) ==
    LET n1 == IF EndsWith(item, TRICKPLAY)
              THEN SubSeq(item, 1, Len(item) - 10) ELSE SplitextRoot(item)
    IN  IF EndsWith(n1, POSTER) THEN SubSeq(n1, 8, Len(n1)) ELSE n1
BaseKey(item) ==
    LET n1 == IF EndsWith(item, TRICKPLAY)
              THEN SubSeq(item, 1, Len(item) - 10) ELSE SplitextRoot(item)
    IN  IF EndsWith(n1, POSTER) THEN SubSeq(n1, 1, Len(n1) - 7) ELSE n1

\* item[len(base_key):]
MoveSuffix(item, base_key) == SubSeq(item, Len(base_key) + 1, Len(item))

\* re.match(rf"{re.escape(group)} - S(\d{4})E\d+ - (.*)", base_key)
RECURSIVE DigitRun(_, _)
DigitRun(s, i) == IF i <= Len(s) /\ IsDigit(s[i]) THEN 1 + DigitRun(s, i + 1) ELSE 0
RECURSIVE UntilNewline(_)
UntilNewline(s) == IF s = <<>> \/ Head(s) = "\n" THEN <<>>
                   ELSE <<Head(s)>> \o UntilNewline(Tail(s))
YearStart(g)  == Len(g) + Len(SepS)
PatternMatch(g, b) ==
    LET i0 == YearStart(g)
    IN  /\ StartsWith(b, g \o SepS)
        /\ Len(b) >= i0 + 5
        /\ \A k \in 1..4 : IsDigit(b[i0 + k])
        /\ b[i0 + 5] = "E"
        /\ DigitRun(b, i0 + 6) >= 1
        /\ LET j == i0 + 6 + DigitRun(b, i0 + 6)
           IN  Len(b) >= j + 2 /\ SubSeq(b, j, j + 2) = SepT
MatchYear(g, b)  == SubSeq(b, YearStart(g) + 1, YearStart(g) + 4)
MatchTitle(g, b) ==
    LET j == YearStart(g) + 6 + DigitRun(b, YearStart(g) + 6)
    IN  Strip(UntilNewline(SubSeq(b, j + 3, Len(b))))

\* f"{raw_title} ({year})" and f"{new_base_name} ({collision_counter})"
NewBaseName(title, year) == title \o <<" ", "(">> \o year \o <<")">>
CounterName(base, n)     == base \o <<" ", "(">> \o IntToStr(n) \o <<")">>

\* ------------------------------------------------------------ the inputs
HOME  == <<"h","o","m","e">>          \* basename of ROOT_DIR (line 9)
Y2021 == <<"2","0","2","1">>
TitleA == <<"A">>
GroupH == <<"H">>
GroupR == <<"R">>
SrcA == << <<"a">> >>                 \* ROOT_DIR/a
SrcB == << <<"b">> >>                 \* ROOT_DIR/b
OriginalGroups == {GroupH, GroupR}
TargetSubdirs  == {<<"V">>, <<"a">>}

\* "<group> - S2021E<ep> - <title><suffix>"
VidName(g, ep, title, suffix) ==
    g \o SepS \o Y2021 \o <<"E">> \o ep \o SepT \o title \o suffix

OutDir(t)  == <<Y2021, t>>
DestA(t)   == <<Y2021, t, NewBaseName(TitleA, Y2021)>>
OldNfo     == [title |-> <<"o","l","d">>, year |-> <<>>]
NoNfo      == [title |-> <<>>, year |-> <<>>]

\* the entries the library may hold at the start; the index is the entry's
\* identity and its position in the directory listing
Candidates(t) == <<
    [dir |-> SrcA, name |-> VidName(GroupH, <<"1">>, TitleA, MP4), kind |-> "file"],
    [dir |-> SrcA, name |-> VidName(GroupH, <<"1">>, TitleA, POSTER \o JPG), kind |-> "file"],
    [dir |-> SrcA, name |-> VidName(GroupH, <<"1">>, TitleA, NFO), kind |-> "file"],
    [dir |-> SrcA, name |-> VidName(GroupH, <<"1">>, TitleA, TRICKPLAY), kind |-> "dir"],
    [dir |-> SrcA, name |-> VidName(GroupH, <<"2">>, TitleA, MP4), kind |-> "file"],
    [dir |-> SrcA, name |-> VidName(GroupH, <<"2">>, TitleA, NFO), kind |-> "file"],
    [dir |-> SrcB, name |-> VidName(GroupH, <<"3">>, <<" ">> \o TitleA, MP4), kind |-> "file"],
    [dir |-> SrcA, name |-> VidName(GroupR, <<"1">>, TitleA, MP4), kind |-> "file"],
    [dir |-> SrcA, name |-> GroupH \o SepT \o <<"C">> \o MP4, kind |-> "file"],
    [dir |-> DestA(t), name |-> NewBaseName(TitleA, Y2021) \o MP4, kind |-> "file"],
    [dir |-> DestA(t), name |-> CounterName(NewBaseName(TitleA, Y2021), 2) \o MP4, kind |-> "file"],
    [dir |-> OutDir(t), name |-> VidName(GroupH, <<"1">>, TitleA, MP4), kind |-> "file"] >>
NumCandidates == Len(Candidates(<<"V">>))

Entry(t, i) == [id |-> i, dir |-> Candidates(t)[i].dir, name |-> Candidates(t)[i].name,
                kind |-> Candidates(t)[i].kind,
                nfo |-> IF EndsWith(Candidates(t)[i].name, NFO) THEN OldNfo ELSE NoNfo]

\* --------------------------------------------------------------- paths
Prefixes(path) == {SubSeq(path, 1, k) : k \in 0..Len(path)}
Basename(path) == IF path = <<>> THEN HOME ELSE path[Len(path)]
\* os.path.exists(os.path.join(d, n))
Exists(f, ds, d, n) == (\E e \in f : e.dir = d /\ e.name = n) \/ Append(d, n) \in ds

\* ------------------------------------------------------------- listing
RECURSIVE ById(_)
ById(es) == IF es = {} THEN <<>>
            ELSE LET e == CHOOSE x \in es : \A y \in es : x.id <= y.id
                 IN  <<e.name>> \o ById(es \ {e})
RECURSIVE AnyOrder(_)
AnyOrder(S) == IF S = {} THEN <<>>
               ELSE LET x == CHOOSE y \in S : TRUE IN <<x>> \o AnyOrder(S \ {x})
Children(ds, d) == {p \in ds : Len(p) = Len(d) + 1 /\ SubSeq(p, 1, Len(d)) = d}
\* all_items = files + dirs (line 67)
AllItems(f, ds, d) ==
    ById({e \in f : e.dir = d /\ e.kind = "file"})
      \o ById({e \in f : e.dir = d /\ e.kind = "dir"})
      \o AnyOrder({Basename(p) : p \in Children(ds, d)})

\* ------------------------------------------------------------ grouping
\* grouped_items[name_no_ext].append(item), keys in insertion order
AddToGroup(gs, key, item) ==
    IF \E i \in 1..Len(gs) : gs[i].base_key = key
    THEN [i \in 1..Len(gs) |->
            IF gs[i].base_key = key
            THEN [gs[i] EXCEPT !.items = Append(@, item)] ELSE gs[i]]
    ELSE Append(gs, [base_key |-> key, items |-> <<item>>])

\* the two filters at the head of the loop (lines 75-80)
TakesNoPrefix(item, g, rootdir, t) == Basename(rootdir) # t
Takes(item, g, rootdir, t) == StartsWith(item, g) /\ Basename(rootdir) # t

RECURSIVE GroupItems(_, _, _, _, _)
GroupItems(items, gs, g, rootdir, t) ==
    IF items = <<>> THEN gs
    ELSE GroupItems(Tail(items),
                    IF Takes(Head(items), g, rootdir, t)
                    THEN AddToGroup(gs, BaseKey(Head(items)), Head(items)) ELSE gs,
                    g, rootdir, t)

\* ---------------------------------------------------------------- state
VARIABLES
    dry_run, target_subdir, original_group,   \* the arguments of migrate_media
    fs,             \* the entries on disk: [id, dir, name, kind, nfo]
    dirs,           \* the directories that exist, as paths below ROOT_DIR
    walk,           \* os.walk: stack of the listed, not yet visited directories
    root,           \* the directory being processed
    groups,         \* grouped_items still to process, in insertion order
    cur,            \* the locals of the group being processed
    files_to_move,  \* the HomeVideo objects still to move
    pc,             \* "walk", "group", "resolve", "move", "done", "aborted"
    log,            \* the 'Moving' / 'Would move' / 'FAILED' lines printed
    nfoCalls,       \* the calls of update_nfo
    faults,         \* I/O errors raised so far
    run,            \* 1 for the first invocation, 2 for the re-run after a dry run
    fs0,            \* the entries on disk when the first invocation started
    dirs0,          \* the directories that existed then
    dryLog          \* the lines the preceding dry run printed

vars == <<dry_run, target_subdir, original_group, fs, dirs, walk, root, groups, cur,
          files_to_move, pc, log, nfoCalls, faults, run, fs0, dirs0, dryLog>>

NoGroup == [base_key |-> <<>>, items |-> <<>>, year |-> <<>>, raw_title |-> <<>>,
            new_base_name |-> <<>>, dest_dir |-> <<>>, final_base_name |-> <<>>,
            collision_counter |-> 0]

\* class HomeVideo
HomeVideo(item_name, year, title, final_name) ==
    [item_name |-> item_name, year |-> year, title |-> title, final_name |-> final_name]

Init ==
    /\ dry_run \in BOOLEAN
    /\ target_subdir \in TargetSubdirs
    /\ original_group \in OriginalGroups
    /\ \E chosen \in SUBSET (1..NumCandidates) :
          /\ Cardinality(chosen) <= MaxEntries
          /\ fs = {Entry(target_subdir, i) : i \in chosen}
    /\ dirs = {<<>>, SrcA, SrcB} \cup UNION {Prefixes(e.dir) : e \in fs}
    /\ walk = << {<<>>} >>
    /\ root = <<>>
    /\ groups = <<>>
    /\ cur = NoGroup
    /\ files_to_move = <<>>
    /\ pc = "walk"
    /\ log = {}
    /\ nfoCalls = {}
    /\ faults = 0
    /\ run = 1
    /\ fs0 = fs
    /\ dirs0 = dirs
    /\ dryLog = {}

\* ------------------------------------------------------------ os.walk
Push(frames, S) == IF S = {} THEN frames ELSE <<S>> \o frames

\* the next directory of the top-down walk is listed and its items grouped
\* (lines 61-93); the order among siblings is the order of the listing
WalkStep ==
    /\ pc = "walk" /\ walk # <<>>
    /\ \E d \in Head(walk) :
          /\ root' = d
          /\ groups' = GroupItems(AllItems(fs, dirs, d), <<>>, original_group, d,
                                  target_subdir)
          /\ walk' = Push(Push(Tail(walk), Head(walk) \ {d}), Children(dirs, d))
    /\ pc' = "group"
    /\ UNCHANGED <<dry_run, target_subdir, original_group, fs, dirs, cur, files_to_move,
                   log, nfoCalls, faults, run, fs0, dirs0, dryLog>>

\* the walk is over: migrate_media returns
WalkDone ==
    /\ pc = "walk" /\ walk = <<>>
    /\ pc' = "done"
    /\ UNCHANGED <<dry_run, target_subdir, original_group, fs, dirs, walk, root, groups,
                   cur, files_to_move, log, nfoCalls, faults, run, fs0, dirs0, dryLog>>

\* ------------------------------------------------- one group (lines 96-123)
DestDir(year, t, new_base_name) == <<year, t, new_base_name>>
PathExists(f, ds, path) ==
    path = <<>> \/ Exists(f, ds, SubSeq(path, 1, Len(path) - 1), path[Len(path)])

\* if not os.path.exists(dest_dir): if dry_run: pass, else: os.makedirs(dest_dir)
EnsureDestDirAlways(f, ds, dest, dry) ==
    IF PathExists(f, ds, dest) THEN ds ELSE ds \cup Prefixes(dest)
EnsureDestDir(f, ds, dest, dry) ==
    IF PathExists(f, ds, dest) \/ dry THEN ds ELSE ds \cup Prefixes(dest)

\* for base_key, items in grouped_items.items(): the loop is exhausted
DirectoryDone ==
    /\ pc = "group" /\ groups = <<>>
    /\ pc' = "walk"
    /\ UNCHANGED <<dry_run, target_subdir, original_group, fs, dirs, walk, root, groups,
                   cur, files_to_move, log, nfoCalls, faults, run, fs0, dirs0, dryLog>>

\* if not match: print("Skipping ..."); continue
SkipGroup ==
    /\ pc = "group" /\ groups # <<>>
    /\ ~PatternMatch(original_group, Head(groups).base_key)
    /\ groups' = Tail(groups)
    /\ UNCHANGED <<dry_run, target_subdir, original_group, fs, dirs, walk, root, cur,
                   files_to_move, pc, log, nfoCalls, faults, run, fs0, dirs0, dryLog>>

ParsedGroup(g) ==
    LET year  == MatchYear(original_group, g.base_key)
        title == MatchTitle(original_group, g.base_key)
    IN  [base_key |-> g.base_key, items |-> g.items, year |-> year, raw_title |-> title,
         new_base_name |-> NewBaseName(title, year),
         dest_dir |-> DestDir(year, target_subdir, NewBaseName(title, year)),
         final_base_name |-> NewBaseName(title, year),
         collision_counter |-> 1]

\* the base key parses; the destination directory is there or is created
StartGroup ==
    /\ pc = "group" /\ groups # <<>>
    /\ PatternMatch(original_group, Head(groups).base_key)
    /\ cur' = ParsedGroup(Head(groups))
    /\ dirs' = EnsureDestDir(fs, dirs, cur'.dest_dir, dry_run)
    /\ pc' = "resolve"
    /\ UNCHANGED <<dry_run, target_subdir, original_group, fs, walk, root, groups,
                   files_to_move, log, nfoCalls, faults, run, fs0, dirs0, dryLog>>

\* os.makedirs raises: nothing catches it and the process ends with the
\* traceback; the ancestors created before the error stay
MakedirsFails ==
    /\ pc = "group" /\ groups # <<>>
    /\ PatternMatch(original_group, Head(groups).base_key)
    /\ ~dry_run
    /\ ~PathExists(fs, dirs, ParsedGroup(Head(groups)).dest_dir)
    /\ faults < MaxFaults
    /\ faults' = faults + 1
    /\ cur' = ParsedGroup(Head(groups))
    /\ \E k \in 0..2 : dirs' = dirs \cup Prefixes(SubSeq(cur'.dest_dir, 1, k))
    /\ pc' = "aborted"
    /\ UNCHANGED <<dry_run, target_subdir, original_group, fs, walk, root, groups,
                   files_to_move, log, nfoCalls, run, fs0, dirs0, dryLog>>

\* ------------------------------------- collision resolution (lines 125-163)
\* one pass of the for loop over the items: does some item's proposed path
\* exist without being the item itself
CollisionFoundLastOnly(f, ds, c, rootdir) ==
    /\ c.items # <<>>
    /\ LET item == c.items[Len(c.items)]
           proposed_name == c.final_base_name \o MoveSuffix(item, c.base_key)
       IN  /\ StartsWith(item, c.base_key)
           /\ Exists(f, ds, c.dest_dir, proposed_name)
           /\ ~(c.dest_dir = rootdir /\ proposed_name = item)
CollisionFound(f, ds, c, rootdir) ==
    \E i \in 1..Len(c.items) :
        LET item == c.items[i]
            proposed_name == c.final_base_name \o MoveSuffix(item, c.base_key)
        IN  /\ StartsWith(item, c.base_key)
            /\ Exists(f, ds, c.dest_dir, proposed_name)
            /\ ~(c.dest_dir = rootdir /\ proposed_name = item)

\* collision_counter += 1; final_base_name = f"{new_base_name} ({collision_counter})"
NextCandidate(c) ==
    [c EXCEPT !.collision_counter = @ + 1,
              !.final_base_name = CounterName(c.new_base_name, c.collision_counter + 1)]

CollisionRetry ==
    /\ pc = "resolve"
    /\ CollisionFound(fs, dirs, cur, root)
    /\ cur' = NextCandidate(cur)
    /\ UNCHANGED <<dry_run, target_subdir, original_group, fs, dirs, walk, root, groups,
                   files_to_move, pc, log, nfoCalls, faults, run, fs0, dirs0, dryLog>>

\* if not collision_found: break; then files_to_move is filled (lines 167-168)
CollisionResolved ==
    /\ pc = "resolve"
    /\ ~CollisionFound(fs, dirs, cur, root)
    /\ files_to_move' = [i \in 1..Len(cur.items) |->
                            HomeVideo(cur.items[i], cur.year, cur.raw_title,
                                      cur.final_base_name)]
    /\ pc' = "move"
    /\ UNCHANGED <<dry_run, target_subdir, original_group, fs, dirs, walk, root, groups,
                   cur, log, nfoCalls, faults, run, fs0, dirs0, dryLog>>

\* ------------------------------------------------- the moves (lines 171-192)
TargetName(item) == item.final_name \o MoveSuffix(item.item_name, cur.base_key)

\* the title handed to update_nfo (lines 186 and 192)
NfoTitleRaw(item) == item.title
NfoTitle(item) == item.final_name

LogLine(item, id, outcome) ==
    [run |-> run, src |-> root, item |-> item.item_name, id |-> id,
     base_key |-> cur.base_key, dest_dir |-> cur.dest_dir,
     target_name |-> TargetName(item), final_name |-> item.final_name,
     outcome |-> outcome]

NfoCall(item, id, dry) ==
    [run |-> run, dir |-> cur.dest_dir, name |-> TargetName(item), id |-> id,
     item |-> item, new_title |-> NfoTitle(item), new_year |-> item.year, dry |-> dry]

\* update_nfo, not dry: both substitutions and the write, or an exception
\* that is caught and printed
PatchNfo(f, d, n, new_title, new_year, ok) ==
    IF ~ok THEN f
    ELSE {IF e.dir = d /\ e.name = n /\ e.kind = "file"
          THEN [e EXCEPT !.nfo = [title |-> new_title, year |-> new_year]]
          ELSE e : e \in f}

\* shutil.move(source_path, target_path): into the target when it is a
\* directory, else a rename that replaces a file found at the target
IsDir(f, ds, d, n) ==
    (\E e \in f : e.dir = d /\ e.name = n /\ e.kind = "dir") \/ Append(d, n) \in ds
RealDst(f, ds, e, d, n) ==
    IF IsDir(f, ds, d, n) THEN [dir |-> Append(d, n), name |-> e.name]
    ELSE [dir |-> d, name |-> n]
CanMove(f, ds, e, d, n) ==
    /\ d \in ds
    /\ IsDir(f, ds, d, n) => ~Exists(f, ds, Append(d, n), e.name)
    /\ e.kind = "dir" => ~Exists(f, ds, d, n)
Moved(f, ds, e, d, n) ==
    LET r == RealDst(f, ds, e, d, n)
    IN  ({x \in f : ~(x.dir = r.dir /\ x.name = r.name)} \ {e})
          \cup {[e EXCEPT !.dir = r.dir, !.name = r.name]}

SourceEntries(item) == {e \in fs : e.dir = root /\ e.name = item.item_name}

\* for item in files_to_move: the loop is exhausted, the next group is taken
GroupDone ==
    /\ pc = "move" /\ files_to_move = <<>>
    /\ groups' = Tail(groups)
    /\ pc' = "group"
    /\ UNCHANGED <<dry_run, target_subdir, original_group, fs, dirs, walk, root, cur,
                   files_to_move, log, nfoCalls, faults, run, fs0, dirs0, dryLog>>

\* dry run: 'Would move' and, for a metadata file, update_nfo(dry_run=True)
DryMove ==
    /\ pc = "move" /\ files_to_move # <<>> /\ dry_run
    /\ LET item == Head(files_to_move)
           id == IF SourceEntries(item) = {} THEN 0
                 ELSE (CHOOSE e \in SourceEntries(item) : TRUE).id
       IN  /\ log' = log \cup {LogLine(item, id, "would-move")}
           /\ nfoCalls' = IF EndsWith(TargetName(item), NFO)
                          THEN nfoCalls \cup {NfoCall(item, id, TRUE)} ELSE nfoCalls
    /\ files_to_move' = Tail(files_to_move)
    /\ UNCHANGED <<dry_run, target_subdir, original_group, fs, dirs, walk, root, groups,
                   cur, pc, faults, run, fs0, dirs0, dryLog>>

\* shutil.move succeeds; a metadata file is then patched
MoveOk ==
    /\ pc = "move" /\ files_to_move # <<>> /\ ~dry_run
    /\ LET item == Head(files_to_move)
       IN  \E e \in SourceEntries(item) :
             /\ CanMove(fs, dirs, e, cur.dest_dir, TargetName(item))
             /\ log' = log \cup {LogLine(item, e.id, "moved")}
             /\ IF EndsWith(TargetName(item), NFO)
                THEN /\ nfoCalls' = nfoCalls \cup {NfoCall(item, e.id, FALSE)}
                     /\ \E ok \in BOOLEAN :
                          /\ ~ok => faults < MaxFaults
                          /\ faults' = IF ok THEN faults ELSE faults + 1
                          /\ fs' = PatchNfo(Moved(fs, dirs, e, cur.dest_dir, TargetName(item)),
                                            cur.dest_dir, TargetName(item),
                                            NfoTitle(item), item.year, ok)
                ELSE /\ fs' = Moved(fs, dirs, e, cur.dest_dir, TargetName(item))
                     /\ UNCHANGED <<nfoCalls, faults>>
    /\ files_to_move' = Tail(files_to_move)
    /\ UNCHANGED <<dry_run, target_subdir, original_group, dirs, walk, root, groups, cur,
                   pc, run, fs0, dirs0, dryLog>>

\* the position after a failed move: the except clause prints and the for
\* loop goes on with the next item
AfterFailureAbort == "aborted"
AfterFailure == "move"

\* shutil.move raises: 'FAILED to move', the loop goes on
MoveFails ==
    /\ pc = "move" /\ files_to_move # <<>> /\ ~dry_run
    /\ LET item == Head(files_to_move)
           forced == \A e \in SourceEntries(item) :
                        ~CanMove(fs, dirs, e, cur.dest_dir, TargetName(item))
           id == IF SourceEntries(item) = {} THEN 0
                 ELSE (CHOOSE e \in SourceEntries(item) : TRUE).id
       IN  /\ forced \/ faults < MaxFaults
           /\ faults' = IF forced THEN faults ELSE faults + 1
           /\ log' = log \cup {LogLine(item, id, "failed")}
    /\ files_to_move' = Tail(files_to_move)
    /\ pc' = AfterFailure
    /\ UNCHANGED <<dry_run, target_subdir, original_group, fs, dirs, walk, root, groups,
                   cur, nfoCalls, run, fs0, dirs0, dryLog>>

\* --------------------------------------------------------- __main__
\* the program is invoked again without --dry-run after a dry run
Rerun ==
    /\ pc = "done" /\ dry_run /\ run = 1
    /\ dry_run' = FALSE
    /\ run' = 2
    /\ dryLog' = log
    /\ walk' = << {<<>>} >>
    /\ root' = <<>>
    /\ groups' = <<>>
    /\ cur' = NoGroup
    /\ files_to_move' = <<>>
    /\ pc' = "walk"
    /\ UNCHANGED <<target_subdir, original_group, fs, dirs, log, nfoCalls, faults, fs0,
                   dirs0>>

Next ==
    \/ WalkStep \/ WalkDone
    \/ DirectoryDone \/ SkipGroup \/ StartGroup \/ MakedirsFails
    \/ CollisionRetry \/ CollisionResolved
    \/ GroupDone \/ DryMove \/ MoveOk \/ MoveFails
    \/ Rerun

Spec == Init /\ [][Next]_vars

\* ================================================================ claims
Reported == {l \in log : l.outcome \in {"moved", "would-move"}}
SameGroup(l1, l2) == l1.run = l2.run /\ l1.src = l2.src /\ l1.base_key = l2.base_key

\* C1: every member moved in a non-dry run lands in the directory
\* <root>/<year>/<target-subdir>/<N>, N being the resolved destination name
\* that is also the base of the member's new file name.
DirNameIsFileBase ==
    \A l \in log :
        l.outcome = "moved" =>
            /\ Len(l.dest_dir) = 3
            /\ l.dest_dir[2] = target_subdir
            /\ l.dest_dir[3] = l.final_name

\* C2: the collision-resolution loop stops at the lowest-numbered candidate
\* (1 = no suffix, then 2, 3, ...) none of whose member targets exists on disk
\* as another entry, after at most as many retries as the destination
\* directory holds names; no member's target exists when the moves begin.
Candidate(k) ==
    IF k = 1 THEN cur.new_base_name
    ELSE cur.new_base_name \o <<" ", "(">> \o IntToStr(k) \o <<")">>
Taken(k) ==
    \E i \in 1..Len(cur.items) :
        LET target == Candidate(k) \o MoveSuffix(cur.items[i], cur.base_key)
        IN  /\ (\E e \in fs : e.dir = cur.dest_dir /\ e.name = target)
               \/ Append(cur.dest_dir, target) \in dirs
            /\ ~(cur.dest_dir = root /\ target = cur.items[i])
NamesIn(d) == {e.name : e \in {x \in fs : x.dir = d}} \cup {Basename(p) : p \in Children(dirs, d)}
MovesBegin == pc = "move" /\ Len(files_to_move) = Len(cur.items)
LowestFreeCandidate ==
    (pc = "resolve" \/ MovesBegin) =>
        /\ cur.collision_counter >= 1
        /\ cur.final_base_name = Candidate(cur.collision_counter)
        /\ \A k \in 1..(cur.collision_counter - 1) : Taken(k)
        /\ cur.collision_counter <= Cardinality(NamesIn(cur.dest_dir)) + 1
        /\ MovesBegin => ~Taken(cur.collision_counter)
LowestFreeCandidateWitness ==
    /\ MovesBegin /\ cur.collision_counter = 3 /\ Len(cur.items) >= 2

\* C3: a dry run leaves the disk as it found it: no directory is created, no
\* entry is moved, renamed or rewritten, and update_nfo is only called with
\* dry_run=True.
DryRunLeavesDiskUnchanged ==
    dry_run =>
        /\ fs = fs0
        /\ dirs = dirs0
        /\ \A c \in nfoCalls : c.dry
        /\ \A l \in log : l.outcome = "would-move"
DryRunLeavesDiskUnchangedWitness ==
    /\ dry_run /\ pc = "done"
    /\ \E c \in nfoCalls : c.dir \notin dirs
    /\ Cardinality(log) >= 2

\* C4: every member of a group is its base key followed by its suffix, all
\* members of a group get one destination name, and a member's target name
\* is that name followed by the member's suffix.
SuffixPreserved ==
    /\ \A i \in 1..Len(groups) : \A j \in 1..Len(groups[i].items) :
          LET item == groups[i].items[j]
              key  == groups[i].base_key
          IN  /\ Len(key) <= Len(item)
              /\ item = key \o SubSeq(item, Len(key) + 1, Len(item))
    /\ \A l \in log :
          /\ Len(l.base_key) <= Len(l.item)
          /\ l.item = l.base_key \o SubSeq(l.item, Len(l.base_key) + 1, Len(l.item))
          /\ l.target_name = l.final_name \o SubSeq(l.item, Len(l.base_key) + 1, Len(l.item))
    /\ \A l1, l2 \in log : SameGroup(l1, l2) => l1.final_name = l2.final_name
SuffixPreservedWitness ==
    \E l1, l2 \in log :
        /\ SameGroup(l1, l2) /\ l1.outcome = "moved" /\ l2.outcome = "moved"
        /\ EndsWith(l1.target_name, POSTER \o JPG)
        /\ EndsWith(l2.target_name, MP4)
        /\ l1.final_name # NewBaseName(TitleA, Y2021)

\* C5: an entry whose name does not start with the prefix is in no group, and
\* an entry whose base key does not match the pattern is never moved: both are
\* still at their path, under their name, whatever the run did.
Untouchable(e) ==
    \/ ~StartsWith(e.name, original_group)
    \/ ~PatternMatch(original_group, BaseKey(e.name))
PrefixFiltered ==
    /\ \A i \in 1..Len(groups) : \A j \in 1..Len(groups[i].items) :
          StartsWith(groups[i].items[j], original_group)
    /\ \A l \in log : StartsWith(l.item, original_group)
                      /\ PatternMatch(original_group, l.base_key)
    /\ \A e \in fs0 : Untouchable(e) => e \in fs
PrefixFilteredWitness ==
    /\ pc = "done" /\ ~dry_run
    /\ \E l \in log : l.outcome = "moved"
    /\ \E e \in fs0 : e.dir = SrcA /\ ~StartsWith(e.name, original_group)
    /\ \E e \in fs0 : /\ e.dir = SrcA /\ StartsWith(e.name, original_group)
                      /\ ~PatternMatch(original_group, BaseKey(e.name))

\* C6: a failed move is contained to its entry: the loop goes on with the
\* next member under the destination name already decided, and the groups
\* and directories still to come are left as they were.
MoveFailureContained ==
    [][(\E l \in log' \ log : l.outcome = "failed") =>
          /\ pc' = "move"
          /\ files_to_move' = Tail(files_to_move)
          /\ \A i \in 1..Len(files_to_move') :
                files_to_move'[i].final_name = cur.final_base_name
          /\ cur' = cur /\ groups' = groups /\ walk' = walk /\ fs' = fs]_vars
MoveFailureContainedWitness ==
    /\ pc = "done"
    /\ \E l1, l2, l3 \in log :
          /\ l1.outcome = "failed" /\ l2.outcome = "moved" /\ l3.outcome = "moved"
          /\ SameGroup(l1, l2) /\ l1.id < l2.id
          /\ l3.run = l1.run /\ ~SameGroup(l1, l3)

\* C7: a failure to create the destination directory of a group is caught,
\* the group is skipped and the traversal completes.
MakedirsFailureIsCaught == pc # "aborted"

\* C8 as stated: update_nfo gets the parsed title of the group, without the
\* year and without a collision counter, and the parsed year.
NfoGetsParsedTitle ==
    \A c \in nfoCalls :
        /\ c.new_title = MatchTitle(original_group, BaseKey(c.item.item_name))
        /\ c.new_year = MatchYear(original_group, BaseKey(c.item.item_name))

\* C8 as amended: update_nfo gets the resolved destination name of the group
\* ("title (year)" with the collision counter when one was added), which is
\* the base of the file name it is called on, and the parsed year; in a
\* non-dry run it is called exactly for the members with a target name in
\* .nfo whose move succeeded, on the moved file.
NfoGetsDestinationName ==
    /\ \A c \in nfoCalls :
          LET key   == BaseKey(c.item.item_name)
              title == MatchTitle(original_group, key)
              year  == MatchYear(original_group, key)
          IN  /\ EndsWith(c.name, NFO)
              /\ c.name = c.new_title \o SubSeq(c.item.item_name, Len(key) + 1,
                                                Len(c.item.item_name))
              /\ \/ c.new_title = title \o <<" ", "(">> \o year \o <<")">>
                 \/ \E n \in 2..(Cardinality(fs) + 1) :
                       c.new_title = title \o <<" ", "(">> \o year \o <<")", " ", "(">>
                                           \o IntToStr(n) \o <<")">>
              /\ c.new_year = year
              /\ \E l \in log :
                    /\ l.run = c.run /\ l.id = c.id /\ l.dest_dir = c.dir
                    /\ l.target_name = c.name
                    /\ l.outcome = IF c.dry THEN "would-move" ELSE "moved"
    /\ \A l \in Reported :
          EndsWith(l.target_name, NFO) =>
              \E c \in nfoCalls : c.run = l.run /\ c.id = l.id /\ c.name = l.target_name
NfoGetsDestinationNameWitness ==
    \E c \in nfoCalls :
        /\ ~c.dry
        /\ c.new_title = CounterName(NewBaseName(TitleA, Y2021), 2)
        /\ \E e \in fs : e.dir = c.dir /\ e.name = c.name /\ e.nfo.title = c.new_title

\* C9: two distinct groups with the same title and year never get the same
\* destination name in the same destination directory.
DistinctGroupsDistinctNames ==
    \A l1, l2 \in Reported :
        (l1.run = l2.run /\ ~SameGroup(l1, l2) /\ l1.dest_dir = l2.dest_dir)
            => l1.final_name # l2.final_name

\* C10: the path a dry run reports for an entry is the path to which the
\* non-dry run started from the same disk moves it.
DryRunPredictsRealRun ==
    \A l \in log :
        (l.run = 2 /\ l.outcome = "moved") =>
            \E d \in dryLog :
                /\ d.id = l.id /\ d.src = l.src /\ d.item = l.item
                /\ d.dest_dir = l.dest_dir /\ d.target_name = l.target_name
====
